---- MODULE Spec2Model ----
(***************************************************************************)
(* Bresser Weather Center 5-in-1 decoder (src/devices/bresser_5in1.c).     *)
(*                                                                         *)
(* The host hands one bit capture (bitbuffer_t) at a time to the decode    *)
(* callback bresser_6in1_callback.  The callback is modelled statement     *)
(* group by statement group; pc is the position inside the callback.       *)
(***************************************************************************)
EXTENDS Integers, Sequences, FiniteSets, TLC

VARIABLES
    num_rows,            \* bitbuffer->num_rows
    bits_per_row,        \* bitbuffer->bits_per_row[0]
    bb,                  \* bitbuffer->bb[0], the bytes of row 0 (1-indexed sequence)
    pc,                  \* position inside the callback
    start_pos,           \* unsigned start_pos
    len,                 \* unsigned len
    msg,                 \* uint8_t msg[20]; Uninit marks a byte never written
    rain,                \* float rain, as "%.1f" prints it, in tenths of a mm
    chksum,              \* int chksum
    temp_raw,            \* int temp_raw
    temperature,         \* float temperature, as "%.1f" prints it, in tenths of a degree
    humidity,            \* int humidity
    wind_direction_deg,  \* float wind_direction_deg (an integer value)
    wind_gust,           \* float wind_gust, as "%.1f" prints it, in tenths of a km/h
    wind_avg,            \* float wind_avg, as "%.1f" prints it, in tenths of a km/h
    out,                 \* the records handed to decoder_output_data during this call
    ret,                 \* the value the callback returned (NoRet while it runs)
    exit,                \* which return statement the call left through
    rd,                  \* the msg indices the call has read so far
    seen                 \* the host's log: << exit, ret >> of the calls it tallied

vars == << num_rows, bits_per_row, bb, pc, start_pos, len, msg, rain, chksum,
           temp_raw, temperature, humidity, wind_direction_deg, wind_gust,
           wind_avg, out, ret, exit, rd, seen >>

(***************************************************************************)
(* Bounds of the model.                                                    *)
(***************************************************************************)
MaxRows == 2        \* captures have 0..MaxRows rows
RowBytes == 30      \* bytes of row storage the model keeps for row 0

(***************************************************************************)
(* Program constants.                                                      *)
(***************************************************************************)
preamble_pattern == << 170, 170, 45, 212 >>      \* {0xaa, 0xaa, 0x2d, 0xd4}
PatternBits == Len(preamble_pattern) * 8         \* sizeof (preamble_pattern) * 8
MsgSize == 20                                    \* sizeof (msg)
MinRowBits == 160
MaxRowBits == 230
MinLen == 144
ChkOk == 1                                       \* 0x01
RainMarker == 255                                \* 0xff
DECODE_ABORT_LENGTH == -1
DECODE_ABORT_EARLY == -2

Uninit == -1        \* content of a msg byte that was never written
NoRet == 99         \* ret while the callback has not returned

(***************************************************************************)
(* Bit access, as bitbuffer.c does it: bit 0 of a row is the most          *)
(* significant bit of its first byte.                                      *)
(***************************************************************************)
BitOfByte(b, k) == (b \div (2 ^ (7 - k))) % 2

bit(bytes, i) == BitOfByte(bytes[(i \div 8) + 1], i % 8)

HiNib(b) == (b \div 16) % 16        \* (b & 0xf0) >> 4
LoNib(b) == b % 16                  \* b & 0x0f

Min2(a, b) == IF a < b THEN a ELSE b

SetMin(S) == CHOOSE x \in S : \A y \in S : x <= y

(***************************************************************************)
(* bitbuffer_search(bitbuffer, 0, start, pattern, pattern_bits_len):       *)
(* the first bit position >= start at which the whole pattern lies inside  *)
(* the row's valid bits and matches, or bits_per_row when there is none.   *)
(***************************************************************************)
MatchAt(bytes, p, pattern, nbits) ==
    \A k \in 0 .. (nbits - 1) : bit(bytes, p + k) = bit(pattern, k)

bitbuffer_search(bytes, rowbits, start, pattern, nbits) ==
    LET hits == { p \in start .. (rowbits - nbits) : MatchAt(bytes, p, pattern, nbits) }
    IN  IF hits = {} THEN rowbits ELSE SetMin(hits)

(***************************************************************************)
(* bitbuffer_extract_bytes(bitbuffer, 0, pos, out, n): writes              *)
(* (n + 7) / 8 bytes; bits past the n-th are masked to 0.                  *)
(***************************************************************************)
ExtractByte(bytes, pos, n, i) ==
    LET b(k) == IF 8 * i + k < n /\ pos + 8 * i + k < 8 * Len(bytes)
                THEN bit(bytes, pos + 8 * i + k) ELSE 0
    IN  b(0) * 128 + b(1) * 64 + b(2) * 32 + b(3) * 16
          + b(4) * 8 + b(5) * 4 + b(6) * 2 + b(7)

bitbuffer_extract_bytes(bytes, pos, buf, n) ==
    [ i \in DOMAIN buf |->
        IF i < (n + 7) \div 8 THEN ExtractByte(bytes, pos, n, i) ELSE buf[i] ]

(***************************************************************************)
(* Unsigned subtraction a - b of two `unsigned` values.  A negative        *)
(* difference wraps to 2^32 - (b - a); the model keeps the wrapped value   *)
(* as UWrapTop - (b - a), a value above every length the code compares     *)
(* with (TLC's integers are 32 bits wide).                                 *)
(***************************************************************************)
UWrapTop == 2 ^ 30

USub(a, b) == IF a >= b THEN a - b ELSE UWrapTop - (b - a)

(***************************************************************************)
(* binary32 arithmetic.  0.1f is 13421773 * 2^-27 = (204 * 2^16 + 52429)   *)
(* * 2^-27.  A float value v is kept as << H, L >> with                    *)
(* v = (H * 2^16 + L) * 2^-27 and 0 <= L < 2^16.                           *)
(***************************************************************************)
BitLen(n) == IF n = 0 THEN 0
             ELSE CHOOSE k \in 1 .. 30 : 2 ^ (k - 1) <= n /\ n < 2 ^ k

\* (float) n * 0.1f, the exact product rounded to 24 significant bits,
\* ties to even.
MulTenthF(n) ==
    LET lowp == n * 52429
        H == n * 204 + (lowp \div 65536)
        L == lowp % 65536
        e == BitLen(H) - 8                \* bits below the 24 kept ones
        step == 2 ^ e
        q == L \div step
        r == L % step
        up == (2 * r > step) \/ (2 * r = step /\ q % 2 = 1)
        L2 == (IF up THEN q + 1 ELSE q) * step
    IN  IF e <= 0 THEN << H, L >>
        ELSE IF L2 = 65536 THEN << H + 1, 0 >> ELSE << H, L2 >>

\* v > c for a float v and an integer c
FGreater(v, c) == v[1] > c * 2048 \/ (v[1] = c * 2048 /\ v[2] > 0)

\* the float v as "%.1f" prints it, in tenths: 10 * v rounded to the
\* nearest integer, ties to even
PrintTenths(v) ==
    LET lowp == 10 * v[2]
        N == 10 * v[1] + (lowp \div 65536)
        rem == lowp % 65536
        t == N \div 2048
        f == N % 2048
    IN  IF f > 1024 \/ (f = 1024 /\ rem > 0) \/ (f = 1024 /\ rem = 0 /\ t % 2 = 1)
        THEN t + 1 ELSE t

(***************************************************************************)
(* The statements of bresser_6in1_callback, as operators.                  *)
(***************************************************************************)
\* line 59-61: the capture is no candidate
ShapeRejected(rows, rowbits) ==
    rows # 1 \/ rowbits < MinRowBits \/ rowbits > MaxRowBits

\* line 70: the search found no preamble
SyncMissing(pos, rowbits) == pos >= rowbits

\* mutant of TooShort: a length of exactly 144 bits rejected as well
TooShort_le(n) == n <= MinLen

\* line 77: too few bits follow the preamble
TooShort(n) == n < MinLen

\* mutant of TruncLen: the length is not cut to the buffer size
TruncLen_none(n) == n

\* line 84: len = MIN(len, sizeof (msg) * 8)
TruncLen(n) == Min2(n, MsgSize * 8)

\* mutant of IsRain: the marker looked for one byte further
IsRain_13(m) == m[13] = RainMarker

\* line 92 and line 126: the rain variant marker
IsRain(m) == m[12] = RainMarker

\* mutant of RainRaw: three digits, as in the formula left in the comment
\* of line 95
RainRaw_3digit(m) ==
    LoNib(15 - LoNib(m[13])) * 100 + HiNib(255 - m[14]) * 10 + LoNib(255 - m[14])

\* line 96: int rain_raw
RainRaw(m) ==
    (15 - HiNib(m[13])) * 1000 + (15 - LoNib(m[13])) * 100
      + (15 - HiNib(m[14])) * 10 + (15 - LoNib(m[14]))

\* line 97: rain = rain_raw * 0.1f, as "%.1f mm" prints it (tenths of a mm)
Rain(raw) == PrintTenths(MulTenthF(raw))

\* mutant of Chksum: the sum stops at msg[15]
Chksum_14(m) ==
    ( (256 - m[2]) + (256 - m[3]) + (256 - m[4]) + (256 - m[5])
    + (256 - m[6]) + (256 - m[7]) + (256 - m[8]) + (256 - m[9])
    + (256 - m[10]) + (256 - m[11]) + (256 - m[12]) + (256 - m[13])
    + (256 - m[14]) + (256 - m[15]) ) % 256

\* mutant of Chksum: the bytes are inverted with 0xff instead of 0x100
Chksum_ff(m) ==
    ( (255 - m[2]) + (255 - m[3]) + (255 - m[4]) + (255 - m[5])
    + (255 - m[6]) + (255 - m[7]) + (255 - m[8]) + (255 - m[9])
    + (255 - m[10]) + (255 - m[11]) + (255 - m[12]) + (255 - m[13])
    + (255 - m[14]) + (255 - m[15]) + (255 - m[16]) + (255 - m[17]) ) % 256

\* line 103: int chksum, the sum of (0x100 - msg[i]) for i = 2 .. 17, & 0xff
Chksum(m) ==
    ( (256 - m[2]) + (256 - m[3]) + (256 - m[4]) + (256 - m[5])
    + (256 - m[6]) + (256 - m[7]) + (256 - m[8]) + (256 - m[9])
    + (256 - m[10]) + (256 - m[11]) + (256 - m[12]) + (256 - m[13])
    + (256 - m[14]) + (256 - m[15]) + (256 - m[16]) + (256 - m[17]) ) % 256

\* mutant of ChksumBad: the test inverted
ChksumBad_inverted(c) == c = ChkOk

\* line 105: the checksum is wrong
ChksumBad(c) == c # ChkOk

\* line 111: temp_raw
TempRaw(m) == HiNib(m[12]) * 100 + LoNib(m[12]) * 10 + HiNib(m[13])

\* mutant of Temperature: 60.0 itself taken as negative
Temperature_ge(raw) ==
    LET t == MulTenthF(raw)
    IN  IF t[1] >= 60 * 2048 THEN PrintTenths(t) - 1000 ELSE PrintTenths(t)

\* line 112-115: temperature, as "%.1f C" prints it (tenths of a degree).
\* temp_raw * 0.1f - 100 is exact in binary32 for products above 60.
Temperature(raw) ==
    LET t == MulTenthF(raw)
    IN  IF FGreater(t, 60) THEN PrintTenths(t) - 1000 ELSE PrintTenths(t)

\* line 117: humidity
Humidity(m) == LoNib(m[14]) + HiNib(m[14]) * 10

\* line 119: wind_direction_deg
WindDirection(m) == HiNib(m[10]) * 100 + LoNib(m[10]) * 10 + HiNib(m[11])

\* line 120 and 123: gust_raw and wind_raw
GustRaw(m) == (255 - m[7]) * 10 + (15 - HiNib(m[8]))
WindRaw(m) == (255 - m[9]) * 10 + 15 - LoNib(m[8])

\* line 121 and 124: raw * 0.1f * 3.6, as "%.1f km/h" prints it (tenths of
\* a km/h).  raw * 3.6 never ends in .5, so the rounding of the floating
\* point product does not change the printed digit.
WindKmh(raw) == (raw * 36 + 5) \div 10

\* line 128-135: data_make of the rain variant
RainRecord(gust, avg, dir, r) ==
    [ model |-> "Bresser-5in1", wind_gust |-> gust, wind_speed |-> avg,
      wind_dir_deg |-> dir, rain_mm |-> r, mic |-> "CHECKSUM" ]

\* line 139-147: data_make of the weather variant
WeatherRecord(t, h, gust, avg, dir) ==
    [ model |-> "Bresser-5in1", temperature_C |-> t, humidity |-> h,
      wind_gust |-> gust, wind_speed |-> avg, wind_dir_deg |-> dir,
      mic |-> "CHECKSUM" ]

\* the msg indices each statement group reads
RainReads(m) == IF IsRain(m) THEN {12, 13, 14} ELSE {12}
ChksumReads == 2 .. 17
FieldReads == {7, 8, 9, 10, 11, 12, 13, 14}

(***************************************************************************)
(* The captures the host dispatches.  A capture is a transmission (some    *)
(* bits of the 0xaa preamble run, a sync word, a payload) cut to the       *)
(* row's bit length; the row storage past that length is zero.             *)
(***************************************************************************)
SamplePayload ==
    << 238, 147, 127, 247, 191, 251, 239, 158, 254, 174, 191, 255, 255,
       17, 108, 128, 8, 64, 4, 16, 97, 1, 81, 64, 0, 0 >>

BadSync == << 170, 170, 45, 213 >>

RECURSIVE SumBytes(_, _, _)
SumBytes(p, lo, hi) == IF lo > hi THEN 0 ELSE p[lo + 1] + SumBytes(p, lo + 1, hi)

\* p with byte k set so that the sum of (0x100 - b) over bytes lo..hi is 1 mod 256
FixSum(p, lo, hi, k) ==
    [ p EXCEPT ![k + 1] = (255 - (SumBytes(p, lo, hi) - p[k + 1])) % 256 ]

Tails == { "raw", "fix17", "fix15", "fix15z" }

Payload(b0, b12, b13, b14, tail) ==
    LET p == [ SamplePayload EXCEPT ![1] = b0, ![13] = b12, ![14] = b13, ![15] = b14 ]
    IN  CASE tail = "raw"    -> p
          [] tail = "fix17"  -> FixSum(p, 2, 17, 17)
          [] tail = "fix15"  -> FixSum(p, 2, 15, 15)
          [] tail = "fix15z" -> FixSum([ p EXCEPT ![17] = 0, ![18] = 0 ], 2, 15, 15)

Leads == { 0, 3, 24 }

B12 == { 0, 6, 49, 89, 96, 97, 129, 153, 240, 254, 255 }
B13 == { 0, 17, 47, 144, 254, 255 }
B14 == { 0, 108, 128, 153, 220, 255 }

\* captures that differ in shape, sync position and length
ShapeCaptures ==
    { [ rows |-> r, bits |-> IF r = 0 THEN 0 ELSE n, lead |-> l, sync |-> s,
        payload |-> Payload(238, 49, 32, 128, "fix17") ] :
        r \in 0 .. MaxRows,
        n \in { MinRowBits - 1, MinRowBits, 175, 176, 178, 179, 199, 200,
                MaxRowBits, MaxRowBits + 1 },
        l \in Leads,
        s \in { preamble_pattern, BadSync } }

\* single-row captures with a sync word that differ in the payload
PayloadCaptures ==
    { [ rows |-> 1, bits |-> n, lead |-> 3, sync |-> preamble_pattern,
        payload |-> Payload(b0, b12, b13, b14, tail) ] :
        n \in { 179, MaxRowBits },
        b0 \in { 238 }, b12 \in B12, b13 \in B13, b14 \in B14, tail \in Tails }
    \cup
    { [ rows |-> 1, bits |-> 200, lead |-> 24, sync |-> preamble_pattern,
        payload |-> Payload(b0, 255, 17, 108, tail) ] :
        b0 \in { 0, 238 }, tail \in Tails }

Captures == ShapeCaptures \cup PayloadCaptures

StreamBit(c, j) ==
    IF j >= c.bits THEN 0
    ELSE IF j < c.lead THEN (c.lead - j + 1) % 2
    ELSE LET body == c.sync \o c.payload
             k == j - c.lead
         IN  IF k < 8 * Len(body) THEN bit(body, k) ELSE 0

RowOf(c) ==
    [ n \in 1 .. RowBytes |->
        LET b(k) == StreamBit(c, 8 * (n - 1) + k)
        IN  b(0) * 128 + b(1) * 64 + b(2) * 32 + b(3) * 16
              + b(4) * 8 + b(5) * 4 + b(6) * 2 + b(7) ]

(***************************************************************************)
(* State machine.                                                          *)
(***************************************************************************)
FreshMsg == [ i \in 0 .. (MsgSize - 1) |-> Uninit ]

Init ==
    /\ num_rows = 0
    /\ bits_per_row = 0
    /\ bb = [ n \in 1 .. RowBytes |-> 0 ]
    /\ pc = "idle"
    /\ start_pos = 0
    /\ len = 0
    /\ msg = FreshMsg
    /\ rain = 0
    /\ chksum = 0
    /\ temp_raw = 0
    /\ temperature = 0
    /\ humidity = 0
    /\ wind_direction_deg = 0
    /\ wind_gust = 0
    /\ wind_avg = 0
    /\ out = << >>
    /\ ret = NoRet
    /\ exit = "none"
    /\ rd = {}
    /\ seen = {}

\* the host calls decode_fn with one of the captures S; the locals are as
\* declared
DispatchFrom(S) ==
    /\ pc = "idle"
    /\ \E c \in S :
         /\ num_rows' = c.rows
         /\ bits_per_row' = c.bits
         /\ bb' = RowOf(c)
    /\ pc' = "shape"
    /\ UNCHANGED << start_pos, len, msg, rain, chksum, temp_raw, temperature,
                    humidity, wind_direction_deg, wind_gust, wind_avg, out, ret,
                    exit, rd, seen >>

Dispatch == DispatchFrom(Captures)

\* the callback has returned; the host clears the bit buffer for the next
\* capture, and the callback's locals are gone
Clear ==
    /\ num_rows' = 0
    /\ bits_per_row' = 0
    /\ bb' = [ n \in 1 .. RowBytes |-> 0 ]
    /\ start_pos' = 0
    /\ len' = 0
    /\ msg' = FreshMsg
    /\ rain' = 0
    /\ chksum' = 0
    /\ temp_raw' = 0
    /\ temperature' = 0
    /\ humidity' = 0
    /\ wind_direction_deg' = 0
    /\ wind_gust' = 0
    /\ wind_avg' = 0
    /\ out' = << >>
    /\ ret' = NoRet
    /\ exit' = "none"
    /\ rd' = {}
    /\ pc' = "idle"

Finish ==
    /\ pc = "done"
    /\ Clear
    /\ UNCHANGED seen

Return(value, how) ==
    /\ ret' = value
    /\ exit' = how
    /\ pc' = "done"

\* mutant of CheckShape: the shape rejection returns DECODE_ABORT_LENGTH
CheckShape_abortLength ==
    /\ pc = "shape"
    /\ IF ShapeRejected(num_rows, bits_per_row)
       THEN Return(DECODE_ABORT_LENGTH, "ShapeRejected")
       ELSE pc' = "search" /\ UNCHANGED << ret, exit >>
    /\ UNCHANGED << num_rows, bits_per_row, bb, start_pos, len, msg, rain, chksum,
                    temp_raw, temperature, humidity, wind_direction_deg,
                    wind_gust, wind_avg, out, rd, seen >>

\* line 59-66
CheckShape ==
    /\ pc = "shape"
    /\ IF ShapeRejected(num_rows, bits_per_row)
       THEN Return(DECODE_ABORT_EARLY, "ShapeRejected")
       ELSE pc' = "search" /\ UNCHANGED << ret, exit >>
    /\ UNCHANGED << num_rows, bits_per_row, bb, start_pos, len, msg, rain, chksum,
                    temp_raw, temperature, humidity, wind_direction_deg,
                    wind_gust, wind_avg, out, rd, seen >>

\* line 67-75
Search ==
    /\ pc = "search"
    /\ LET pos == bitbuffer_search(bb, bits_per_row, 0, preamble_pattern, PatternBits)
       IN  IF SyncMissing(pos, bits_per_row)
           THEN /\ Return(DECODE_ABORT_LENGTH, "SyncNotFound")
                /\ start_pos' = pos
                /\ UNCHANGED len
           ELSE /\ start_pos' = pos + PatternBits
                /\ len' = USub(bits_per_row, pos + PatternBits)
                /\ pc' = "length"
                /\ UNCHANGED << ret, exit >>
    /\ UNCHANGED << num_rows, bits_per_row, bb, msg, rain, chksum, temp_raw,
                    temperature, humidity, wind_direction_deg, wind_gust,
                    wind_avg, out, rd, seen >>

\* line 77-86
CheckLength ==
    /\ pc = "length"
    /\ IF TooShort(len)
       THEN /\ Return(DECODE_ABORT_LENGTH, "TooShort")
            /\ UNCHANGED << len, msg >>
       ELSE /\ len' = TruncLen(len)
            /\ msg' = bitbuffer_extract_bytes(bb, start_pos, msg, TruncLen(len))
            /\ pc' = "rain"
            /\ UNCHANGED << ret, exit >>
    /\ UNCHANGED << num_rows, bits_per_row, bb, start_pos, rain, chksum, temp_raw,
                    temperature, humidity, wind_direction_deg, wind_gust,
                    wind_avg, out, rd, seen >>

\* line 92-99
RainDecode ==
    /\ pc = "rain"
    /\ rain' = IF IsRain(msg) THEN Rain(RainRaw(msg)) ELSE rain
    /\ rd' = rd \cup RainReads(msg)
    /\ pc' = "chksum"
    /\ UNCHANGED << num_rows, bits_per_row, bb, start_pos, len, msg, chksum,
                    temp_raw, temperature, humidity, wind_direction_deg,
                    wind_gust, wind_avg, out, ret, exit, seen >>

\* line 103-108
Checksum ==
    /\ pc = "chksum"
    /\ chksum' = Chksum(msg)
    /\ rd' = rd \cup ChksumReads
    /\ IF ChksumBad(Chksum(msg))
       THEN Return(0, "ChecksumMismatch")
       ELSE pc' = "fields" /\ UNCHANGED << ret, exit >>
    /\ UNCHANGED << num_rows, bits_per_row, bb, start_pos, len, msg, rain,
                    temp_raw, temperature, humidity, wind_direction_deg,
                    wind_gust, wind_avg, out, seen >>

\* line 111-124
DecodeFields ==
    /\ pc = "fields"
    /\ temp_raw' = TempRaw(msg)
    /\ temperature' = Temperature(TempRaw(msg))
    /\ humidity' = Humidity(msg)
    /\ wind_direction_deg' = WindDirection(msg)
    /\ wind_gust' = WindKmh(GustRaw(msg))
    /\ wind_avg' = WindKmh(WindRaw(msg))
    /\ rd' = rd \cup FieldReads
    /\ pc' = "output"
    /\ UNCHANGED << num_rows, bits_per_row, bb, start_pos, len, msg, rain, chksum,
                    out, ret, exit, seen >>

\* line 126-150
Output ==
    /\ pc = "output"
    /\ out' = Append(out,
                IF IsRain(msg)
                THEN RainRecord(wind_gust, wind_avg, wind_direction_deg, rain)
                ELSE WeatherRecord(temperature, humidity, wind_gust, wind_avg,
                                   wind_direction_deg))
    /\ Return(1, "Success")
    /\ UNCHANGED << num_rows, bits_per_row, bb, start_pos, len, msg, rain, chksum,
                    temp_raw, temperature, humidity, wind_direction_deg,
                    wind_gust, wind_avg, rd, seen >>

Next ==
    \/ Dispatch
    \/ CheckShape
    \/ Search
    \/ CheckLength
    \/ RainDecode
    \/ Checksum
    \/ DecodeFields
    \/ Output
    \/ Finish

Spec == Init /\ [][Next]_vars

(***************************************************************************)
(* The same decoder under a host that tallies what each call returned.     *)
(***************************************************************************)
HostCaptures == ShapeCaptures \cup { c \in PayloadCaptures : c.lead = 24 }

DispatchLogged == DispatchFrom(HostCaptures)

\* the host notes the return value of the call, then clears the bit buffer
Tally ==
    /\ pc = "done"
    /\ Clear
    /\ seen' = seen \cup { << exit, ret >> }

NextLogged ==
    \/ DispatchLogged
    \/ CheckShape
    \/ Search
    \/ CheckLength
    \/ RainDecode
    \/ Checksum
    \/ DecodeFields
    \/ Output
    \/ Tally

SpecLogged == Init /\ [][NextLogged]_vars

(***************************************************************************)
(* What the capture in the bit buffer holds, read off its bits without     *)
(* the decoder's locals.                                                   *)
(***************************************************************************)
\* 0xaa 0xaa 0x2d 0xd4, bit by bit
SyncWord ==
    << 1,0,1,0,1,0,1,0,  1,0,1,0,1,0,1,0,  0,0,1,0,1,1,0,1,  1,1,0,1,0,1,0,0 >>

CapShapeOk == num_rows = 1 /\ bits_per_row >= 160 /\ bits_per_row <= 230

CapSyncAt(p) ==
    /\ p + 32 <= bits_per_row
    /\ \A k \in 1 .. 32 : bit(bb, p + k - 1) = SyncWord[k]

\* has:   the row holds the sync word
\* start: the bit position right after the first sync word
\* after: the number of bits after the first sync word
\* bytes: the 20 bytes after the sync word; bits past the row end or past
\*        the first 160 count as 0
Cap ==
    LET hits == { p \in 0 .. (bits_per_row - 32) : CapSyncAt(p) }
        start == IF hits = {} THEN bits_per_row ELSE SetMin(hits) + 32
        after == bits_per_row - start
        b(j) == IF j < after /\ j < 160 THEN bit(bb, start + j) ELSE 0
    IN  [ has |-> hits # {},
          start |-> start,
          after |-> after,
          bytes |-> [ i \in 0 .. 19 |->
                        b(8 * i) * 128 + b(8 * i + 1) * 64 + b(8 * i + 2) * 32
                          + b(8 * i + 3) * 16 + b(8 * i + 4) * 8 + b(8 * i + 5) * 4
                          + b(8 * i + 6) * 2 + b(8 * i + 7) ] ]

RECURSIVE InvSum(_, _, _)
InvSum(bytes, lo, hi) ==
    IF lo > hi THEN 0 ELSE (256 - bytes[lo]) + InvSum(bytes, lo + 1, hi)

\* the capture c passes the shape, sync and length checks
Framed(c) == CapShapeOk /\ c.has /\ c.after >= 144

Accepted == ret = 1 /\ Len(out) = 1

RainFields == { "model", "wind_gust", "wind_speed", "wind_dir_deg", "rain_mm", "mic" }

WeatherFields ==
    { "model", "temperature_C", "humidity", "wind_gust", "wind_speed",
      "wind_dir_deg", "mic" }

IsWeatherRecord(r) == DOMAIN r = WeatherFields
IsRainRecord(r) == DOMAIN r = RainFields

(***************************************************************************)
(* C1                                                                      *)
(***************************************************************************)
\* C1 as stated: a capture that passes the shape, sync and length checks is
\* accepted if and only if the sum of (0x100 - b) over the 14 bytes 2..15,
\* masked to 8 bits, is 0x01.
C1_ChecksumLaw14 ==
    pc = "done" =>
        LET c == Cap
        IN  Framed(c) => (Accepted <=> InvSum(c.bytes, 2, 15) % 256 = 1)

\* C1 amended: a capture that passes the shape, sync and length checks is
\* accepted (success returned, one record emitted) if and only if the sum of
\* (0x100 - b) over the 16 bytes 2..17, masked to 8 bits, is 0x01; so no
\* byte outside 2..17 has any influence, and a change of one byte of 2..17
\* that changes the sum turns acceptance into rejection.
C1_ChecksumLaw16 ==
    pc = "done" =>
        LET c == Cap
        IN  Framed(c) => (Accepted <=> InvSum(c.bytes, 2, 17) % 256 = 1)

\* an accepted capture whose 14-byte sum is not 0x01
C1_Witness ==
    /\ pc = "done" /\ Accepted
    /\ LET c == Cap IN Framed(c) /\ InvSum(c.bytes, 2, 15) % 256 # 1

(***************************************************************************)
(* C2                                                                      *)
(***************************************************************************)
\* the bits after the sync word are the documented sample payload
CapIsSample ==
    LET c == Cap
    IN  /\ Framed(c)
        /\ \A j \in 0 .. (Min2(c.after, 8 * Len(SamplePayload)) - 1) :
              bit(bb, c.start + j) = bit(SamplePayload, j)

C3_OutputDiscipline ==
    /\ Len(out) <= 1
    /\ pc = "done" =>
          /\ ret = 1 => Len(out) = 1
          /\ ret # 1 => Len(out) = 0
          /\ LET c == Cap
             IN  Len(out) = 1 <=> (Framed(c) /\ InvSum(c.bytes, 2, 17) % 256 = 1)
    /\ Len(out) > 0 =>
          /\ ChksumReads \subseteq rd
          /\ chksum = 1
          /\ pc = "done"

\* a successful call that has delivered its one record
C3_Witness == pc = "done" /\ ret = 1 /\ Len(out) = 1 /\ chksum = 1

(***************************************************************************)
(* C4                                                                      *)
(***************************************************************************)
Failures == { "ShapeRejected", "SyncNotFound", "TooShort", "ChecksumMismatch" }

\* C4 as stated: the return values of two calls are equal only if the two
\* calls ended in the same condition (one of the four failures, or success).
C4_AllDistinct ==
    \A p \in seen : \A q \in seen : p[2] = q[2] => p[1] = q[1]

\* SyncNotFound and TooShort are one class, every other condition its own
RetClass(e) == IF e \in { "SyncNotFound", "TooShort" } THEN "SyncOrLength" ELSE e

\* C4 amended: ShapeRejected, ChecksumMismatch and success return three
\* different values, each different from the one value that SyncNotFound and
\* TooShort both return (DECODE_ABORT_LENGTH); success returns 1.  The return
\* value tells these four classes apart, not SyncNotFound from TooShort.
C4_ThreeFailureValues ==
    /\ \A p \in seen : \A q \in seen : (p[2] = q[2]) <=> (RetClass(p[1]) = RetClass(q[1]))
    /\ \A p \in seen : RetClass(p[1]) = "SyncOrLength" => p[2] = DECODE_ABORT_LENGTH
    /\ \A p \in seen : p[1] = "Success" <=> p[2] = 1

\* the host has tallied a call of every condition
C4_Witness == { p[1] : p \in seen } = Failures \cup { "Success" }

(***************************************************************************)
(* C5                                                                      *)
(***************************************************************************)
\* C5: the call ends in the first failing check of shape, sync, length,
\* checksum.  A capture of the wrong shape is ShapeRejected whatever it
\* holds; a shape-valid capture without the sync word is SyncNotFound; one
\* with the sync word and fewer than 144 bits after it is TooShort, before
\* any byte is read or the checksum evaluated; with 144 bits or more it is
\* never TooShort.
C5_StagedRejection ==
    pc = "done" =>
        LET c == Cap
        IN
        /\ exit = "ShapeRejected" <=> ~CapShapeOk
        /\ exit = "SyncNotFound" <=> (CapShapeOk /\ ~c.has)
        /\ exit = "TooShort" <=> (CapShapeOk /\ c.has /\ c.after < 144)
        /\ exit \in { "ChecksumMismatch", "Success" } <=> Framed(c)
        /\ exit \in { "ShapeRejected", "SyncNotFound", "TooShort" } =>
              rd = {} /\ chksum = 0 /\ out = << >>

\* a capture rejected for its shape although it holds the sync word and a
\* payload with a valid checksum
C5_Witness ==
    /\ pc = "done" /\ exit = "ShapeRejected"
    /\ num_rows > 0
    /\ LET c == Cap
       IN  c.has /\ c.after >= 144 /\ InvSum(c.bytes, 2, 17) % 256 = 1

(***************************************************************************)
(* C6                                                                      *)
(***************************************************************************)
\* C6: the field set of every emitted record is decided by byte 12 of the
\* payload alone: 0xFF gives the rain record (no temperature, no
\* humidity), any other value the weather record (no rainfall).
C6_VariantDispatch ==
    \A n \in 1 .. Len(out) :
        DOMAIN out[n] = IF Cap.bytes[12] = 255 THEN RainFields ELSE WeatherFields

\* a rain record has been emitted
C6_Witness == Len(out) = 1 /\ Cap.bytes[12] = 255 /\ IsRainRecord(out[1])

(***************************************************************************)
(* C7                                                                      *)
(***************************************************************************)
CapTempRaw ==
    LET c == Cap
    IN  HiNib(c.bytes[12]) * 100 + LoNib(c.bytes[12]) * 10 + HiNib(c.bytes[13])

C8_HumidityRange ==
    \A n \in 1 .. Len(out) :
        IsWeatherRecord(out[n]) => out[n].humidity \in 0 .. 99

Extracted ==
    \/ pc \in { "rain", "chksum", "fields", "output" }
    \/ pc = "done" /\ exit \in { "ChecksumMismatch", "Success" }

\* C10: once the call has extracted, the number of bits copied is
\* min(bits after the preamble, 160), between 144 and 160, so at most 20
\* bytes are written; every msg index read is in 2..17 and below the number
\* of bytes written (at least 18), and holds a written byte.  The length
\* after the preamble is computed without wrapping: the start position
\* never lies past the row end.
C10_BufferBounds ==
    /\ Extracted =>
          /\ len = Min2(Cap.after, 160)
          /\ len >= 144 /\ len <= 160
          /\ (len + 7) \div 8 <= 20
          /\ (len + 7) \div 8 >= 18
          /\ \A i \in rd : i >= 2 /\ i <= 17 /\ i < (len + 7) \div 8 /\ msg[i] # Uninit
          /\ \A i \in 0 .. 19 : (msg[i] # Uninit) <=> (i < (len + 7) \div 8)
    /\ pc = "length" =>
          /\ start_pos <= bits_per_row
          /\ len = bits_per_row - start_pos
    /\ pc \in { "idle", "shape", "search", "length" } => rd = {}

\* a capture with more than 160 bits after the preamble, cut to 160
C10_Witness ==
    /\ pc = "done" /\ exit = "Success"
    /\ len = 160
    /\ rd = 2 .. 17
    /\ Cap.after > 160

====
